---- MODULE Spec2Model ----
(***************************************************************************)
(* The sampling loop of the network speed exporter (src/main.go):          *)
(* collectNetworkSpeeds reads /proc/net/dev line by line, publishes        *)
(* gauges, keeps the previous sample of every interface in prevStats, and  *)
(* calls cleanupOldInterfaces at the end of every cycle.                   *)
(*                                                                         *)
(* Time is counted in ticks of the host clock.  time.Now() returns the     *)
(* current tick; the clock never goes back (Go compares monotonic          *)
(* readings) but the model does not assume that it moves between two       *)
(* readings: the source guards that case itself (timeDiff > 0).            *)
(***************************************************************************)
EXTENDS Integers, Sequences, FiniteSets, TLC

VARIABLES
    clock,                 \* the host clock, what time.Now() returns
    pc,                    \* position of the goroutine collectNetworkSpeeds
    stats,                 \* prevStats.stats: interface name -> sample
    lock,                  \* prevStats.RWMutex as seen between two steps
    currentInterfaces,     \* local map of the cycle (line 156)
    loc,                   \* locals of the last iteration of the scan loop
    cleanupNow,            \* local `now` of cleanupOldInterfaces (line 112)
    networkSpeedBits,      \* gauge family: <<interface, direction>> -> value
    networkErrors,
    networkDrops,
    networkPackets,
    networkInterfaceInfo,  \* gauge family: <<interface, description>> -> 1
    allowedIPs,            \* the flag -allowed-ips (line 29)
    remoteAddr,            \* r.RemoteAddr of the last request to /metrics
    status                 \* the status of the response to that request

gauges == <<networkSpeedBits, networkErrors, networkDrops, networkPackets,
            networkInterfaceInfo>>

\* What the handler of /metrics reads and answers.
http == <<allowedIPs, remoteAddr, status>>

vars == <<clock, pc, stats, lock, currentInterfaces, loc, cleanupNow,
          networkSpeedBits, networkErrors, networkDrops, networkPackets,
          networkInterfaceInfo, allowedIPs, remoteAddr, status>>

---------------------------------------------------------------------------
(* Bounds of the model. *)

\* The clock stops at this tick.
MaxClock == 3

\* The longest remote address and the longest allowlist tried.
MaxAddrLen == 4
MaxListLen == 3

(* Program constants.  maxInterfaces (1000), cleanupInterval (5 minutes)   *)
(* and the width of the counters (uint64) are scaled down so that the      *)
(* capacity, the staleness window and the wraparound are all reached.      *)
bytesToBits == 8
maxInterfaces == 1
cleanupInterval == 2
CounterBits == 3
MinFields == 17

Modulus == 2 ^ CounterBits

Ifaces == {"eth0", "eth1", "eth2"}
Directions == {"receive", "transmit"}

---------------------------------------------------------------------------
(* The raw counter feed: one line of /proc/net/dev after strings.Fields.   *)
(* Field 1 is the name with its colon, fields 2..17 are the sixteen        *)
(* counters of the kernel's table (Go index + 1).                          *)

NameField(n) == [name |-> n, suffix |-> ":"]

Filler == 0

RawLine(n, c) ==
    << NameField(n),
       c.rxBytes, c.rxPackets, c.rxErrors, c.rxDrops,
       Filler, Filler, Filler, Filler,
       c.txBytes, c.txPackets, c.txErrors, c.txDrops,
       Filler, Filler, Filler, Filler >>

\* A line cut short: fewer than 17 fields.
ShortLine(n) == << NameField(n), 1, 2 >>

Counters(rb, rp, re, rd, tb, tp, te, td) ==
    [rxBytes |-> rb, rxPackets |-> rp, rxErrors |-> re, rxDrops |-> rd,
     txBytes |-> tb, txPackets |-> tp, txErrors |-> te, txDrops |-> td]

\* The readings the feed can show.  Between the two readings of eth0,
\* rxBytes grows while txBytes falls, and the other way round; the other
\* interfaces are idle, their counters stand still.
CounterReadings(n) ==
    IF n = "eth0"
    THEN { Counters(1, 2, 3, 4, 5, 6, 7, 1),
           Counters(3, 4, 5, 6, 4, 7, 1, 2) }
    ELSE { Counters(2, 3, 4, 5, 6, 7, 1, 3) }

Lines(n) == { RawLine(n, c) : c \in CounterReadings(n) }

ShortLines == { ShortLine("eth0") }

\* strings.TrimSuffix(fields[0], ":")
TrimSuffix(f) == f.name

\* fmt.Sscanf(field, "%d", &v) into a uint64 that starts at 0: a numeral
\* that does not fit leaves the variable at 0.
Sscanf(v) == IF v \in 0 .. (Modulus - 1) THEN v ELSE 0

ParseCounters(fields) ==
    [rxBytes   |-> Sscanf(fields[2]),
     rxPackets |-> Sscanf(fields[3]),
     rxErrors  |-> Sscanf(fields[4]),
     rxDrops   |-> Sscanf(fields[5]),
     txBytes   |-> Sscanf(fields[10]),
     txPackets |-> Sscanf(fields[11]),
     txErrors  |-> Sscanf(fields[12]),
     txDrops   |-> Sscanf(fields[13])]

---------------------------------------------------------------------------
(* net.InterfaceByName: an error, or the flags of the interface.           *)

LookupErr == [err |-> TRUE, flags |-> {}]
Flags(fs) == [err |-> FALSE, flags |-> fs]

Lookups ==
    { LookupErr, Flags({}), Flags({"FlagUp"}), Flags({"FlagUp", "FlagLoopback"}) }

\* line 171: err != nil || Flags&FlagLoopback != 0 || Flags&FlagUp == 0
Filtered(lookup) ==
    \/ lookup.err
    \/ "FlagLoopback" \in lookup.flags
    \/ "FlagUp" \notin lookup.flags

---------------------------------------------------------------------------
(* os.ReadFile of /sys/class/net/<if>/ifalias: an error, or the bytes of   *)
(* the file.  A description is a sequence of characters.                   *)

ReadErr == [err |-> TRUE, bytes |-> << >>]
ReadOk(b) == [err |-> FALSE, bytes |-> b]

Unknown == << "U", "n", "k", "n", "o", "w", "n" >>

\* Only eth0 has an alias file that can be read.
AliasReads(n) ==
    IF n = "eth0" THEN { ReadErr, ReadOk(<< "w", "a", "n", "\n" >>) } ELSE { ReadErr }

IsSpace(ch) == ch \in {" ", "\n", "\t", "\r"}

RECURSIVE TrimLeft(_)
TrimLeft(s) ==
    IF s # << >> /\ IsSpace(Head(s)) THEN TrimLeft(Tail(s)) ELSE s

RECURSIVE TrimRight(_)
TrimRight(s) ==
    IF s # << >> /\ IsSpace(s[Len(s)])
    THEN TrimRight(SubSeq(s, 1, Len(s) - 1))
    ELSE s

\* strings.TrimSpace
TrimSpace(s) == TrimRight(TrimLeft(s))

\* lines 176-180
Description(read) == IF read.err THEN Unknown ELSE TrimSpace(read.bytes)

---------------------------------------------------------------------------
(* Gauge values.  A rate is the float64 quotient of two integers; it is    *)
(* kept as the fraction in lowest terms.  float64(x) of a counter is x.    *)
(* A float64 division by zero does not panic: it gives +Inf (1/0 here) or  *)
(* NaN (0/0 here).                                                         *)

RECURSIVE Gcd(_, _)
Gcd(a, b) == IF b = 0 THEN a ELSE Gcd(b, a % b)

Quotient(n, d) ==
    IF d = 0
    THEN [num |-> IF n = 0 THEN 0 ELSE 1, den |-> 0]
    ELSE LET g == Gcd(n, d) IN [num |-> n \div g, den |-> d \div g]

\* rxBytes - prev.rxBytes on uint64: the difference modulo the width.
USub(a, b) == (a - b) % Modulus

\* lines 211 and 218: float64(cur - prev) * bytesToBits / timeDiff
Speed(cur, prev, timeDiff) == Quotient(USub(cur, prev) * bytesToBits, timeDiff)

\* Not the program: the family is reset before the value is set.
SetGaugeAfterReset(g, key, v) == [k \in {key} |-> v]

\* GaugeVec.With(labels).Set(v)
SetGauge(g, key, v) ==
    [k \in (DOMAIN g) \cup {key} |-> IF k = key THEN v ELSE g[k]]

NoGauges == << >>

---------------------------------------------------------------------------
(* The Store.                                                              *)

Sample(c, now) ==
    [rxBytes |-> c.rxBytes, txBytes |-> c.txBytes,
     rxPackets |-> c.rxPackets, txPackets |-> c.txPackets,
     rxErrors |-> c.rxErrors, txErrors |-> c.txErrors,
     rxDrops |-> c.rxDrops, txDrops |-> c.txDrops,
     time |-> now, lastSeen |-> now]

\* Not the program: a put that stores nothing.
PutDropped(s, name, sample) == s

\* prevStats.stats[ifaceName] = ... (lines 258-276)
Put(s, name, sample) ==
    [k \in (DOMAIN s) \cup {name} |-> IF k = name THEN sample ELSE s[k]]

\* delete(prevStats.stats, k) for every k in ks
Delete(s, ks) == [k \in (DOMAIN s) \ ks |-> s[k]]

\* The test of line 114 with >= for >.
IsStaleAtEdge(now, lastSeen) == now - lastSeen >= cleanupInterval

\* line 114: now.Sub(stats.lastSeen) > cleanupInterval
IsStale(now, lastSeen) == now - lastSeen > cleanupInterval

\* Not the program: a staleness step that evicts nothing.
EvictNothing(s, now) == s

\* lines 113-117
EvictStale(s, now) ==
    Delete(s, {k \in DOMAIN s : IsStale(now, s[k].lastSeen)})

\* The comparison of line 127 turned round.
After(t, u) == u < t

\* time.Time.Before
Before(t, u) == t < u

Perms(S) ==
    {p \in [1 .. Cardinality(S) -> S] : \A k \in S : \E i \in DOMAIN p : p[i] = k}

\* lines 122-128: the names in map iteration order, then sort.Slice by
\* lastSeen.  sort.Slice is not stable and the map order is not fixed, so
\* every order that is sorted by lastSeen can come out.
SortedByLastSeen(s) ==
    {p \in Perms(DOMAIN s) :
        \A i, j \in DOMAIN p : i < j => ~Before(s[p[j]].lastSeen, s[p[i]].lastSeen)}

\* A loop that stops one entry early.
OldestButOne(interfaces) ==
    {interfaces[i] : i \in 1 .. (Len(interfaces) - maxInterfaces - 1)}

\* lines 129-131: delete interfaces[0 .. len-maxInterfaces-1]
Oldest(interfaces) == {interfaces[i] : i \in 1 .. (Len(interfaces) - maxInterfaces)}

\* lines 120-132: the Stores the capacity step can leave.
EnforceCapacity(s) ==
    IF Cardinality(DOMAIN s) > maxInterfaces
    THEN {Delete(s, Oldest(interfaces)) : interfaces \in SortedByLastSeen(s)}
    ELSE {s}

NoStats == << >>

---------------------------------------------------------------------------
(* Locals of the scan loop's last iteration.                               *)

NoTime == -1

\* The zero time.Time lies before every reading of the clock.
ZeroTime == -1

\* line 203: a missing key yields the zero value of the struct.
NoPrev == Sample(Counters(0, 0, 0, 0, 0, 0, 0, 0), ZeroTime)

NoLine == [kind |-> "none"]

ShortLoc == [kind |-> "short"]

SkippedLoc(name, lookup) ==
    [kind |-> "skipped", ifaceName |-> name, lookup |-> lookup]

SampledLoc(name, desc, c, now, exists, prev) ==
    [kind |-> "sampled", ifaceName |-> name, description |-> desc,
     counters |-> c, now |-> now, exists |-> exists, prev |-> prev]

---------------------------------------------------------------------------
(* The handler of /metrics.  Strings are sequences of characters.          *)

\* The flag when neither -allowed-ips nor ALLOWED_IPS is given.
NoAllowList == << >>

\* No request has come yet; the request has not been answered yet.
NoRequest == << "-" >>
NoStatus == 0

\* line 318: http.StatusForbidden; line 321: the status promhttp answers.
StatusForbidden == 403
StatusOK == 200

\* The characters of the remote addresses and of the allowlists tried.
AddrChars == {"a", ":", "[", "]"}
ListChars == {"a", ",", " "}

Strings(chars, maxLen) == UNION {[1..n -> chars] : n \in 0..maxLen}

RemoteAddrs == Strings(AddrChars, MaxAddrLen)
AllowLists == Strings(ListChars, MaxListLen)

\* bytealg.IndexByteString and bytealg.LastIndexByteString, counting from
\* 1, with 0 for an absent character.
IndexByte(s, ch) ==
    IF \E i \in 1..Len(s) : s[i] = ch
    THEN CHOOSE i \in 1..Len(s) : s[i] = ch /\ \A j \in 1..(i - 1) : s[j] # ch
    ELSE 0

LastIndexByte(s, ch) ==
    IF \E i \in 1..Len(s) : s[i] = ch
    THEN CHOOSE i \in 1..Len(s) : s[i] = ch /\ \A j \in (i + 1)..Len(s) : s[j] # ch
    ELSE 0

AddrErr == [err |-> TRUE, host |-> << >>, port |-> << >>]

\* line 294: net.SplitHostPort of the Go library.
SplitHostPort(hostport) ==
    LET n == Len(hostport)
        i == LastIndexByte(hostport, ":")
        end == IndexByte(hostport, "]")
        bracketed == hostport[1] = "["
        host == IF bracketed THEN SubSeq(hostport, 2, end - 1)
                             ELSE SubSeq(hostport, 1, i - 1)
        j == IF bracketed THEN 2 ELSE 1
        k == IF bracketed THEN end + 1 ELSE 1
    IN  IF i = 0 THEN AddrErr                                  \* missing port
        ELSE IF bracketed /\ end = 0 THEN AddrErr              \* missing ']'
        ELSE IF bracketed /\ end = n THEN AddrErr              \* missing port
        ELSE IF bracketed /\ end + 1 # i THEN AddrErr          \* ']' not before the last ':'
        ELSE IF ~bracketed /\ IndexByte(host, ":") # 0 THEN AddrErr  \* too many colons
        ELSE IF IndexByte(SubSeq(hostport, j, n), "[") # 0 THEN AddrErr
        ELSE IF IndexByte(SubSeq(hostport, k, n), "]") # 0 THEN AddrErr
        ELSE [err |-> FALSE, host |-> host, port |-> SubSeq(hostport, i + 1, n)]

\* line 299: strings.Split(s, sep) for a separator of one character.
RECURSIVE Split(_, _)
Split(s, sep) ==
    LET i == IndexByte(s, sep)
    IN  IF i = 0 THEN << s >>
        ELSE << SubSeq(s, 1, i - 1) >> \o Split(SubSeq(s, i + 1, Len(s)), sep)

\* Not the program: the address compared with its port still on it.
isIPAllowedWithPort(addr) ==
    \/ allowedIPs = << >>
    \/ LET allowedList == Split(allowedIPs, ",")
       IN  \E x \in 1..Len(allowedList) : addr = TrimSpace(allowedList[x])

\* lines 288-307
isIPAllowed(addr) ==
    \/ allowedIPs = << >>
    \/ LET split == SplitHostPort(addr)
           ip == IF split.err THEN addr ELSE split.host
           allowedList == Split(allowedIPs, ",")
       IN  \E x \in 1..Len(allowedList) : ip = TrimSpace(allowedList[x])

---------------------------------------------------------------------------
Init ==
    /\ clock = 0
    /\ pc = "open"
    /\ stats = NoStats
    /\ lock = "unlocked"
    /\ currentInterfaces = {}
    /\ loc = NoLine
    /\ cleanupNow = NoTime
    /\ networkSpeedBits = NoGauges
    /\ networkErrors = NoGauges
    /\ networkDrops = NoGauges
    /\ networkPackets = NoGauges
    /\ networkInterfaceInfo = NoGauges
    /\ allowedIPs = NoAllowList
    /\ remoteAddr = NoRequest
    /\ status = NoStatus

\* The host clock moves on.
Tick ==
    /\ clock < MaxClock
    /\ clock' = clock + 1
    /\ UNCHANGED <<pc, stats, lock, currentInterfaces, loc, cleanupNow, gauges, http>>

\* lines 141, 148-156: /proc/net/dev opens, the two header lines are read.
OpenFile ==
    /\ pc = "open"
    /\ pc' = "scan"
    /\ currentInterfaces' = {}
    /\ loc' = NoLine
    /\ UNCHANGED <<clock, stats, lock, cleanupNow, gauges, http>>

\* Not the program: a failed open that still runs the staleness eviction.
OpenFailsAndEvicts ==
    /\ pc = "open"
    /\ pc' = "backoff"
    /\ stats' = EvictStale(stats, clock)
    /\ UNCHANGED <<clock, lock, currentInterfaces, loc, cleanupNow, gauges, http>>

\* lines 142-145: the open fails.
OpenFails ==
    /\ pc = "open"
    /\ pc' = "backoff"
    /\ UNCHANGED <<clock, stats, lock, currentInterfaces, loc, cleanupNow, gauges, http>>

\* line 144-145: time.Sleep(time.Second); continue
Backoff ==
    /\ pc = "backoff"
    /\ pc' = "open"
    /\ UNCHANGED <<clock, stats, lock, currentInterfaces, loc, cleanupNow, gauges, http>>

\* Not the program: the error, drop and packet gauges set to the growth of
\* the counters since the stored sample.
PublishDeltas(name, c, prev, timeDiff) ==
    /\ networkSpeedBits' =
         SetGauge(SetGauge(networkSpeedBits,
                           <<name, "receive">>, Speed(c.rxBytes, prev.rxBytes, timeDiff)),
                  <<name, "transmit">>, Speed(c.txBytes, prev.txBytes, timeDiff))
    /\ networkErrors' =
         SetGauge(SetGauge(networkErrors,
                           <<name, "receive">>, USub(c.rxErrors, prev.rxErrors)),
                  <<name, "transmit">>, USub(c.txErrors, prev.txErrors))
    /\ networkDrops' =
         SetGauge(SetGauge(networkDrops,
                           <<name, "receive">>, USub(c.rxDrops, prev.rxDrops)),
                  <<name, "transmit">>, USub(c.txDrops, prev.txDrops))
    /\ networkPackets' =
         SetGauge(SetGauge(networkPackets,
                           <<name, "receive">>, USub(c.rxPackets, prev.rxPackets)),
                  <<name, "transmit">>, USub(c.txPackets, prev.txPackets))

\* lines 206-254: the gauges set for a line that passed the filter.
PublishRates(name, c, prev, timeDiff) ==
    /\ networkSpeedBits' =
         SetGauge(SetGauge(networkSpeedBits,
                           <<name, "receive">>, Speed(c.rxBytes, prev.rxBytes, timeDiff)),
                  <<name, "transmit">>, Speed(c.txBytes, prev.txBytes, timeDiff))
    /\ networkErrors' =
         SetGauge(SetGauge(networkErrors, <<name, "receive">>, c.rxErrors),
                  <<name, "transmit">>, c.txErrors)
    /\ networkDrops' =
         SetGauge(SetGauge(networkDrops, <<name, "receive">>, c.rxDrops),
                  <<name, "transmit">>, c.txDrops)
    /\ networkPackets' =
         SetGauge(SetGauge(networkPackets, <<name, "receive">>, c.rxPackets),
                  <<name, "transmit">>, c.txPackets)

\* line 203: prev, exists := prevStats.stats[ifaceName]
Lookup(s, name) == IF name \in DOMAIN s THEN s[name] ELSE NoPrev

\* The test of line 209 with >= for >.
HasDeltaOrZero(exists, timeDiff) == exists /\ timeDiff >= 0

\* The test of line 209 left out.
HasDeltaIfSeen(exists, timeDiff) == exists

\* The test of line 206 left out.
HasDeltaUnchecked(exists, timeDiff) == timeDiff > 0

\* lines 206 and 209: if exists { ... if timeDiff > 0 {
HasDelta(exists, timeDiff) == exists /\ timeDiff > 0

\* lines 174-277: the body of the loop for a line that passed the filter.
SampleLine(name, fields, read) ==
    LET description == Description(read)
        c == ParseCounters(fields)
        now == clock
        exists == name \in DOMAIN stats
        prev == Lookup(stats, name)
        timeDiff == now - prev.time
    IN  /\ networkInterfaceInfo' =
             SetGauge(networkInterfaceInfo, <<name, description>>, 1)
        /\ IF HasDelta(exists, timeDiff)
           THEN PublishRates(name, c, prev, timeDiff)
           ELSE UNCHANGED <<networkSpeedBits, networkErrors, networkDrops,
                            networkPackets>>
        /\ stats' = Put(stats, name, Sample(c, now))
        /\ loc' = SampledLoc(name, description, c, now, exists, prev)

\* Not the program: a line with too few fields ends the cycle.
ScanShortLineAborts ==
    /\ pc = "scan"
    /\ \E fields \in ShortLines :
         /\ Len(fields) < MinFields
         /\ loc' = ShortLoc
    /\ pc' = "open"
    /\ UNCHANGED <<clock, stats, lock, currentInterfaces, cleanupNow, gauges, http>>

\* lines 158-163: a line with too few fields is passed over.
ScanShortLine ==
    /\ pc = "scan"
    /\ \E fields \in ShortLines :
         /\ Len(fields) < MinFields
         /\ loc' = ShortLoc
    /\ UNCHANGED <<clock, pc, stats, lock, currentInterfaces, cleanupNow, gauges, http>>

\* lines 158-278: one iteration of the scan loop on a full line.  The
\* kernel lists every interface once, so the name is new in this cycle.
ScanLine ==
    /\ pc = "scan"
    /\ \E n \in Ifaces \ currentInterfaces :
       \E fields \in Lines(n), lookup \in Lookups, read \in AliasReads(n) :
         LET ifaceName == TrimSuffix(fields[1]) IN
         /\ Len(fields) >= MinFields
         /\ currentInterfaces' = currentInterfaces \cup {ifaceName}
         /\ IF Filtered(lookup)
            THEN /\ loc' = SkippedLoc(ifaceName, lookup)
                 /\ UNCHANGED <<stats, gauges>>
            ELSE SampleLine(ifaceName, fields, read)
    /\ UNCHANGED <<clock, pc, lock, cleanupNow, http>>

\* Not the program: the scan ends and the loop sleeps without a cleanup.
CleanupSkipped ==
    /\ pc = "scan"
    /\ pc' = "sleep"
    /\ currentInterfaces' = {}
    /\ loc' = NoLine
    /\ UNCHANGED <<clock, stats, lock, cleanupNow, gauges, http>>

\* lines 279, 282, 109-117: the scan is over (its locals are gone), the
\* file is closed, and cleanupOldInterfaces takes the lock and drops the
\* stale entries.
CleanupStale ==
    /\ pc = "scan"
    /\ lock = "unlocked"
    /\ lock' = "locked"
    /\ cleanupNow' = clock
    /\ stats' = EvictStale(stats, clock)
    /\ pc' = "capacity"
    /\ currentInterfaces' = {}
    /\ loc' = NoLine
    /\ UNCHANGED <<clock, gauges, http>>

\* lines 119-133: the capacity step, and the deferred Unlock.
CleanupCapacity ==
    /\ pc = "capacity"
    /\ stats' \in EnforceCapacity(stats)
    /\ lock' = "unlocked"
    /\ cleanupNow' = NoTime
    /\ pc' = "sleep"
    /\ UNCHANGED <<clock, currentInterfaces, loc, gauges, http>>

\* line 284: time.Sleep(time.Second), then the next cycle.
Sleep ==
    /\ pc = "sleep"
    /\ pc' = "open"
    /\ UNCHANGED <<clock, stats, lock, currentInterfaces, loc, cleanupNow, gauges, http>>

Next ==
    \/ Tick
    \/ OpenFile
    \/ OpenFails
    \/ Backoff
    \/ ScanShortLine
    \/ ScanLine
    \/ CleanupStale
    \/ CleanupCapacity
    \/ Sleep

Spec == Init /\ [][Next]_vars

---------------------------------------------------------------------------
(* The handler of /metrics on its own: the flag is any of the allowlists,  *)
(* a request has come from any of the remote addresses and is answered.    *)

HandlerInit ==
    /\ clock = 0
    /\ pc = "open"
    /\ stats = NoStats
    /\ lock = "unlocked"
    /\ currentInterfaces = {}
    /\ loc = NoLine
    /\ cleanupNow = NoTime
    /\ networkSpeedBits = NoGauges
    /\ networkErrors = NoGauges
    /\ networkDrops = NoGauges
    /\ networkPackets = NoGauges
    /\ networkInterfaceInfo = NoGauges
    /\ allowedIPs \in AllowLists
    /\ remoteAddr \in RemoteAddrs
    /\ status = NoStatus

\* lines 317-320: the request is refused.
Deny ==
    /\ remoteAddr # NoRequest
    /\ status = NoStatus
    /\ ~isIPAllowed(remoteAddr)
    /\ status' = StatusForbidden
    /\ UNCHANGED <<clock, pc, stats, lock, currentInterfaces, loc, cleanupNow,
                   gauges, allowedIPs, remoteAddr>>

\* Not the program: the handler reads under the lock of the Store.
ServeUnderLock ==
    /\ remoteAddr # NoRequest
    /\ status = NoStatus
    /\ lock = "unlocked"
    /\ isIPAllowed(remoteAddr)
    /\ status' = StatusOK
    /\ UNCHANGED <<clock, pc, stats, lock, currentInterfaces, loc, cleanupNow,
                   gauges, allowedIPs, remoteAddr>>

\* line 321: the request is answered from the registry.
Serve ==
    /\ remoteAddr # NoRequest
    /\ status = NoStatus
    /\ isIPAllowed(remoteAddr)
    /\ status' = StatusOK
    /\ UNCHANGED <<clock, pc, stats, lock, currentInterfaces, loc, cleanupNow,
                   gauges, allowedIPs, remoteAddr>>

HandlerNext == Deny \/ Serve

HandlerSpec == HandlerInit /\ [][HandlerNext]_vars

---------------------------------------------------------------------------
(* The sampling loop and the handler of /metrics side by side, as main     *)
(* starts them (lines 313-325), with the flag left empty, so that no       *)
(* request is refused.  The snapshot holds eth0 and eth1.                  *)

\* The remote address of the scrapes.
ScrapeAddrs == { << "a", ":", "a" >> }

\* line 316: a request to /metrics comes in while none is being answered.
Request ==
    /\ remoteAddr = NoRequest \/ status # NoStatus
    /\ remoteAddr' \in ScrapeAddrs
    /\ status' = NoStatus
    /\ UNCHANGED <<clock, pc, stats, lock, currentInterfaces, loc, cleanupNow,
                   gauges, allowedIPs>>

ConcScanLine ==
    /\ ScanLine
    /\ loc'.ifaceName \in {"eth0", "eth1"}

\* A step of the goroutine of line 313.
LoopNext ==
    \/ OpenFile
    \/ OpenFails
    \/ Backoff
    \/ ScanShortLine
    \/ ConcScanLine
    \/ CleanupStale
    \/ CleanupCapacity
    \/ Sleep

ConcNext ==
    \/ Tick
    \/ LoopNext
    \/ Request
    \/ Serve

ConcSpec == Init /\ [][ConcNext]_vars

---------------------------------------------------------------------------
(* The steady environment: every read of /proc/net/dev succeeds, eth0 is   *)
(* in every snapshot, up and not a loopback, and the clock advances by one *)
(* tick during every sleep of line 284 and at no other time.               *)

\* The line of eth0 passes the filter of lines 170-173.
SteadyScanLine ==
    /\ ScanLine
    /\ loc'.ifaceName = "eth0" => loc'.kind = "sampled"

\* The snapshot ends after the line of eth0 has been read.
SteadyCleanupStale ==
    /\ "eth0" \in currentInterfaces
    /\ CleanupStale

\* line 284: the clock advances while the loop sleeps.
SleepTick ==
    /\ pc = "sleep"
    /\ clock < MaxClock
    /\ pc' = "open"
    /\ clock' = clock + 1
    /\ UNCHANGED <<stats, lock, currentInterfaces, loc, cleanupNow, gauges, http>>

SteadyNext ==
    \/ OpenFile
    \/ ScanShortLine
    \/ SteadyScanLine
    \/ SteadyCleanupStale
    \/ CleanupCapacity
    \/ SleepTick

\* The goroutine of line 313 keeps running: a step of the loop that can be
\* taken is taken.
SteadySpec == Init /\ [][SteadyNext]_vars /\ WF_vars(SteadyNext)

---------------------------------------------------------------------------
(* Properties.                                                             *)

\* A gauge value g is the quotient n / d.
IsQuotient(g, n, d) == g.den # 0 /\ g.num * d = n * g.den

IsNegative(g) == g.den # 0 /\ g.num < 0

GaugeNames(g) == {k[1] : k \in DOMAIN g}

\* The interfaces that have a value in some gauge family.
Published ==
    GaugeNames(networkSpeedBits) \cup GaugeNames(networkErrors)
        \cup GaugeNames(networkDrops) \cup GaugeNames(networkPackets)
        \cup GaugeNames(networkInterfaceInfo)

\* The last iteration of the scan loop sampled a line that had a previous
\* sample taken strictly earlier.
SampledWithDelta ==
    /\ loc.kind = "sampled"
    /\ loc.exists
    /\ loc.now > loc.prev.time

\* A step of the scan loop that sampled a line.
SampledStep == loc' # loc /\ loc'.kind = "sampled"

RateIs(dir, cur, prev) ==
    /\ <<loc.ifaceName, dir>> \in DOMAIN networkSpeedBits
    /\ IsQuotient(networkSpeedBits[<<loc.ifaceName, dir>>],
                  (cur - prev) * 8, loc.now - loc.prev.time)

\* C1: whenever a line is sampled that has a previous sample (C1 at T1) and
\* the current reading (C2) is taken at T2 > T1, the receive gauge is
\* (C2.rxBytes - C1.rxBytes) * 8 / (T2 - T1) and the transmit gauge is
\* (C2.txBytes - C1.txBytes) * 8 / (T2 - T1).
RateIsDeltaOverElapsed ==
    SampledWithDelta =>
        /\ RateIs("receive", loc.counters.rxBytes, loc.prev.rxBytes)
        /\ RateIs("transmit", loc.counters.txBytes, loc.prev.txBytes)

\* The same for counters that did not fall: this part of C1 holds.
RateOfGrowingCounters ==
    /\ (SampledWithDelta /\ loc.counters.rxBytes >= loc.prev.rxBytes)
          => RateIs("receive", loc.counters.rxBytes, loc.prev.rxBytes)
    /\ (SampledWithDelta /\ loc.counters.txBytes >= loc.prev.txBytes)
          => RateIs("transmit", loc.counters.txBytes, loc.prev.txBytes)

\* C2: when the current byte counter is lower than the stored one and the
\* elapsed time is positive, the published rate is negative: the signed
\* difference times 8 over the elapsed time.
FallenCounterGivesNegativeRate ==
    /\ (SampledWithDelta /\ loc.counters.rxBytes < loc.prev.rxBytes)
          => /\ RateIs("receive", loc.counters.rxBytes, loc.prev.rxBytes)
             /\ IsNegative(networkSpeedBits[<<loc.ifaceName, "receive">>])
    /\ (SampledWithDelta /\ loc.counters.txBytes < loc.prev.txBytes)
          => /\ RateIs("transmit", loc.counters.txBytes, loc.prev.txBytes)
             /\ IsNegative(networkSpeedBits[<<loc.ifaceName, "transmit">>])

\* C3, as claimed: in every state, the middle of a cycle included, the
\* Store holds at most maxInterfaces entries.
StoreNeverExceedsCap == Cardinality(DOMAIN stats) <= maxInterfaces

\* C3, amended: the Store holds at most maxInterfaces entries in every
\* state between the return of cleanup and the next scan.
StoreWithinCapAfterCleanup ==
    pc \in {"sleep", "open", "backoff"} => Cardinality(DOMAIN stats) <= maxInterfaces

\* Cleanup has returned with a full Store and an interface that was sampled
\* is gone from it; no entry can be stale at tick 0, so the capacity step
\* removed it.
CapacityWasEnforced ==
    /\ pc = "sleep"
    /\ clock = 0
    /\ Cardinality(DOMAIN stats) = maxInterfaces
    /\ GaugeNames(networkInterfaceInfo) \ DOMAIN stats # {}

\* C4: an interface that is loopback or not up has no value in any gauge
\* family, also when it was up in an earlier cycle.
FilteredInterfaceNotPublished ==
    (loc.kind = "skipped" /\ ~loc.lookup.err) => loc.ifaceName \notin Published

\* C5: the first cycle that observes an interface with no entry in the
\* Store creates exactly one entry, holding the current reading, and sets
\* no rate gauge.
FirstSightStoresOnly ==
    [][(SampledStep /\ ~loc'.exists) =>
          LET n == loc'.ifaceName
              c == loc'.counters
          IN  /\ n \notin DOMAIN stats
              /\ DOMAIN stats' = DOMAIN stats \cup {n}
              /\ \A k \in DOMAIN stats : stats'[k] = stats[k]
              /\ c \in CounterReadings(n)
              /\ stats'[n] = [rxBytes |-> c.rxBytes, txBytes |-> c.txBytes,
                              rxPackets |-> c.rxPackets, txPackets |-> c.txPackets,
                              rxErrors |-> c.rxErrors, txErrors |-> c.txErrors,
                              rxDrops |-> c.rxDrops, txDrops |-> c.txDrops,
                              time |-> clock, lastSeen |-> clock]
              /\ networkSpeedBits' = networkSpeedBits]_vars

\* An interface was sampled for the first time: it has its entry and no
\* rate.
FirstSightSeen ==
    /\ loc.kind = "sampled"
    /\ ~loc.exists
    /\ loc.ifaceName \in DOMAIN stats
    /\ loc.ifaceName \notin GaugeNames(networkSpeedBits)

\* C6: when the elapsed time between the stored sample and the current
\* reading is zero or negative, no rate, error, drop or packet gauge is set
\* for the interface, and the current reading is stored as the new sample.
NoElapsedTimeStoresOnly ==
    [][(SampledStep /\ loc'.exists /\ loc'.now - loc'.prev.time <= 0) =>
          LET n == loc'.ifaceName
              c == loc'.counters
          IN  /\ networkSpeedBits' = networkSpeedBits
              /\ networkErrors' = networkErrors
              /\ networkDrops' = networkDrops
              /\ networkPackets' = networkPackets
              /\ c \in CounterReadings(n)
              /\ DOMAIN stats' = DOMAIN stats
              /\ stats'[n] = [rxBytes |-> c.rxBytes, txBytes |-> c.txBytes,
                              rxPackets |-> c.rxPackets, txPackets |-> c.txPackets,
                              rxErrors |-> c.rxErrors, txErrors |-> c.txErrors,
                              rxDrops |-> c.rxDrops, txDrops |-> c.txDrops,
                              time |-> clock, lastSeen |-> clock]]_vars

\* An interface was sampled again at the tick of its stored sample, with
\* other counters, and the Store holds the new reading.
NoElapsedTimeSeen ==
    /\ loc.kind = "sampled"
    /\ loc.exists
    /\ loc.now = loc.prev.time
    /\ loc.counters.rxBytes # loc.prev.rxBytes
    /\ stats[loc.ifaceName].rxBytes = loc.counters.rxBytes

\* C7: the lastSeen of an interface's entry is refreshed in every cycle in
\* which the interface is in the snapshot, also when its line is skipped by
\* the filter or by a failed metadata lookup.
LastSeenRefreshedWhenSkipped ==
    [][(loc' # loc /\ loc'.kind = "skipped" /\ loc'.ifaceName \in DOMAIN stats) =>
          /\ loc'.ifaceName \in DOMAIN stats'
          /\ stats'[loc'.ifaceName].lastSeen = clock]_vars

\* The step that runs the capacity step of cleanup.
CapacityStep == pc = "capacity" /\ pc' = "sleep"

DistinctLastSeen(s) ==
    \A a, b \in DOMAIN s : a # b => s[a].lastSeen # s[b].lastSeen

\* The n entries of s with the newest lastSeen.
Newest(s, n) ==
    {k \in DOMAIN s :
        Cardinality({j \in DOMAIN s : s[j].lastSeen > s[k].lastSeen}) < n}

\* C8: on a Store of N+K entries (K > 0) with pairwise distinct lastSeen,
\* none stale, the capacity step removes exactly the K entries with the
\* oldest lastSeen and leaves the N newest, each unchanged.
CapacityEvictsOldest ==
    [][(CapacityStep /\ Cardinality(DOMAIN stats) > maxInterfaces
                     /\ DistinctLastSeen(stats)) =>
          /\ DOMAIN stats' = Newest(stats, maxInterfaces)
          /\ Cardinality(DOMAIN stats') = maxInterfaces
          /\ Cardinality(DOMAIN stats \ DOMAIN stats')
                = Cardinality(DOMAIN stats) - maxInterfaces
          /\ \A k \in DOMAIN stats' : stats'[k] = stats[k]]_vars

\* The staleness step has run and left two entries more than the capacity,
\* with pairwise distinct lastSeen: the Store the capacity step acts on.
OverCapacityDistinct ==
    /\ pc = "capacity"
    /\ Cardinality(DOMAIN stats) = maxInterfaces + 2
    /\ DistinctLastSeen(stats)

\* C9: right after the staleness step has run at time now, no entry has a
\* lastSeen older than now minus the staleness window, whatever the number
\* of entries; the entries within the window are all kept, unchanged.
StaleStepEvictsExactlyStale ==
    [][(pc = "scan" /\ pc' = "capacity") =>
          /\ cleanupNow' = clock
          /\ DOMAIN stats' =
                {k \in DOMAIN stats : stats[k].lastSeen >= clock - cleanupInterval}
          /\ \A k \in DOMAIN stats' : stats'[k] = stats[k]]_vars

\* One interface only was ever sampled, so the Store never went over its
\* capacity: the staleness step has removed its entry.
StaleEvictedWithinCapacity ==
    /\ pc = "capacity"
    /\ stats = NoStats
    /\ Cardinality(GaugeNames(networkInterfaceInfo)) = 1

\* C10: capacity eviction is deterministic: the Store it leaves is a
\* function of the Store it finds, also when lastSeen values are equal.
CapacityEvictionDeterministic ==
    pc = "capacity" => Cardinality(EnforceCapacity(stats)) = 1

---------------------------------------------------------------------------
\* The step in which the open fails, and a step taken during the backoff.
OpenFailsStep == pc = "open" /\ pc' = "backoff"
BackoffStep == pc = "backoff" /\ pc' # pc

\* C11: an iteration whose open fails changes no Store entry and no gauge
\* value and runs no eviction (the lock is never taken); the loop goes on:
\* the backoff ends, and it ends at the open of the next iteration.
FailedOpenChangesNothing ==
    /\ [][OpenFailsStep \/ pc = "backoff" =>
             /\ stats' = stats
             /\ gauges' = gauges
             /\ lock' = "unlocked"
             /\ cleanupNow' = NoTime]_vars
    /\ [][BackoffStep => pc' = "open"]_vars
    /\ [](pc = "backoff" => ENABLED Backoff)

\* The open has failed while the Store holds an entry old enough for the
\* staleness eviction, and gauges are set: the entry is still there.
FailedOpenWithStaleEntry ==
    /\ pc = "backoff"
    /\ \E k \in DOMAIN stats : IsStale(clock, stats[k].lastSeen)
    /\ networkInterfaceInfo # NoGauges

---------------------------------------------------------------------------
\* The throughput gauges of eth0 have been set.
ThroughputPublished ==
    /\ <<"eth0", "receive">> \in DOMAIN networkSpeedBits
    /\ <<"eth0", "transmit">> \in DOMAIN networkSpeedBits

\* C12 as stated: an interface read in every cycle of the steady
\* environment has its throughput published, whatever the number of other
\* interfaces tracked: it is published by the end of the last cycle the
\* clock allows.
ReadEveryCyclePublished ==
    (pc = "sleep" /\ clock = MaxClock) => ThroughputPublished

\* C12: in the steady environment an interface read in every cycle
\* eventually has its throughput gauges published, provided the Store never
\* holds more than maxInterfaces entries.
ReadEveryCycleWithinCapacityPublished ==
    [](Cardinality(DOMAIN stats) <= maxInterfaces) => <>ThroughputPublished

\* The second cycle has sampled eth0, alone in the Store since the start,
\* and has published its throughput.
PublishedInSecondCycle ==
    /\ clock = 1
    /\ pc = "sleep"
    /\ GaugeNames(networkInterfaceInfo) = {"eth0"}
    /\ ThroughputPublished

---------------------------------------------------------------------------
\* The line sampled in this step repeats the stored sample of its interface:
\* the same eight counters, read at the tick the stored sample was taken.
ReplayStep ==
    /\ SampledStep
    /\ loc'.exists
    /\ loc'.now = loc'.prev.time
    /\ \A f \in DOMAIN loc'.counters : loc'.counters[f] = loc'.prev[f]

\* C13: processing a line a second time with the same counters and the same
\* timestamp leaves the Store as the first processing left it (the same
\* keys, and for every key the same counters, time and lastSeen) and sets
\* no rate gauge, nor any error, drop or packet gauge.
ReplayLeavesStore ==
    [][ReplayStep =>
          /\ stats' = stats
          /\ networkSpeedBits' = networkSpeedBits
          /\ networkErrors' = networkErrors
          /\ networkDrops' = networkDrops
          /\ networkPackets' = networkPackets]_vars

\* A line was processed twice at one tick with the same counters, while the
\* Store held another interface too.
ReplaySeen ==
    /\ loc.kind = "sampled"
    /\ loc.exists
    /\ loc.now = loc.prev.time
    /\ \A f \in DOMAIN loc.counters : loc.counters[f] = loc.prev[f]
    /\ stats[loc.ifaceName] = loc.prev
    /\ Cardinality(DOMAIN stats) > 1

---------------------------------------------------------------------------
\* The comma-separated entries of an allowlist: its longest pieces without
\* a comma.
Entries(list) ==
    {SubSeq(list, i, j) : <<i, j>> \in
        {p \in (1..(Len(list) + 1)) \X (0..Len(list)) :
            /\ p[1] <= p[2] + 1
            /\ p[1] = 1 \/ list[p[1] - 1] = ","
            /\ p[2] = Len(list) \/ list[p[2] + 1] = ","
            /\ \A x \in p[1]..p[2] : list[x] # ","}}

\* The remote address without its port when it has one, whole otherwise.
HostPart(addr) ==
    IF SplitHostPort(addr).err THEN addr ELSE SplitHostPort(addr).host

\* The request has been answered.
Served == status # NoStatus

\* C14 as stated: with an empty allowlist every request is allowed;
\* otherwise a request is allowed exactly when the host part of its remote
\* address is equal to one of the comma-separated entries of the allowlist.
AllowedIffHostIsEntry ==
    Served =>
        /\ status \in {StatusOK, StatusForbidden}
        /\ status = StatusOK <=>
               \/ allowedIPs = << >>
               \/ HostPart(remoteAddr) \in Entries(allowedIPs)

\* C14: with an empty allowlist every request is allowed; otherwise a
\* request is allowed exactly when the host part of its remote address is
\* equal to one of the comma-separated entries of the allowlist after the
\* white space around the entry is trimmed.
AllowedIffHostIsTrimmedEntry ==
    Served =>
        /\ status \in {StatusOK, StatusForbidden}
        /\ status = StatusOK <=>
               \/ allowedIPs = << >>
               \/ \E e \in Entries(allowedIPs) : HostPart(remoteAddr) = TrimSpace(e)

\* A request with a port on its address is allowed by an entry written
\* with a space around it.
AllowedByPaddedEntry ==
    /\ Served
    /\ status = StatusOK
    /\ HostPart(remoteAddr) # remoteAddr
    /\ HostPart(remoteAddr) # << >>
    /\ HostPart(remoteAddr) \notin Entries(allowedIPs)
    /\ \E e \in Entries(allowedIPs) : HostPart(remoteAddr) = TrimSpace(e)

---------------------------------------------------------------------------
\* The order of the steps of a cycle.
CycleOrder ==
    { <<"open", "backoff">>, <<"backoff", "open">>, <<"open", "scan">>,
      <<"scan", "capacity">>, <<"capacity", "sleep">>, <<"sleep", "open">> }

StaleStep == pc = "scan" /\ pc' = "capacity"

Min(a, b) == IF a <= b THEN a ELSE b

\* C15: a cycle that has read the snapshot runs cleanup once, after the
\* scan and before the sleep; cleanup evicts the stale entries first, and
\* the capacity check then counts the entries that survived: it leaves
\* min(survivors, maxInterfaces) of them.
CleanupOnceStaleBeforeCapacity ==
    /\ [][pc' # pc => <<pc, pc'>> \in CycleOrder]_vars
    /\ [][StaleStep =>
             /\ lock = "unlocked" /\ lock' = "locked"
             /\ DOMAIN stats' \subseteq DOMAIN stats
             /\ \A k \in DOMAIN stats' : ~IsStale(clock, stats'[k].lastSeen)]_vars
    /\ [](pc = "capacity" =>
             /\ lock = "locked"
             /\ \A k \in DOMAIN stats : ~IsStale(cleanupNow, stats[k].lastSeen))
    /\ [][CapacityStep =>
             /\ DOMAIN stats' \subseteq DOMAIN stats
             /\ Cardinality(DOMAIN stats') =
                    Min(Cardinality(DOMAIN stats), maxInterfaces)
             /\ lock' = "unlocked"]_vars
    /\ [](pc \in {"scan", "sleep"} => lock = "unlocked")

\* Cleanup is between its two steps: an interface sampled earlier has left
\* the Store, and the entries that survived the staleness step are more
\* than the capacity.
SurvivorsOverCapacity ==
    /\ pc = "capacity"
    /\ cleanupNow = MaxClock
    /\ Cardinality(DOMAIN stats) > maxInterfaces
    /\ GaugeNames(networkInterfaceInfo) \ DOMAIN stats # {}

---------------------------------------------------------------------------
\* Gauge family g keeps its keys and values, those of interface n apart.
OthersKept(g, n) ==
    \A k \in DOMAIN g' : k[1] # n => k \in DOMAIN g /\ g'[k] = g[k]

\* Gauge family g holds rx for the receive and tx for the transmit direction
\* of interface n after the step.
SetTo(g, n, rx, tx) ==
    /\ <<n, "receive">> \in DOMAIN g' /\ g'[<<n, "receive">>] = rx
    /\ <<n, "transmit">> \in DOMAIN g' /\ g'[<<n, "transmit">>] = tx

\* C16: the error, drop and packet gauges of an interface are set to the
\* counters just read, receive and transmit each to its own, in the steps
\* that set its rate gauges: the steps that sample it with a stored sample
\* and a positive elapsed time.  No other step changes any of the four
\* families.
CountersSetWithRates ==
    /\ [][SampledStep =>
             LET n == loc'.ifaceName
                 c == loc'.counters
             IN  IF loc'.exists /\ loc'.now - loc'.prev.time > 0
                 THEN /\ <<n, "receive">> \in DOMAIN networkSpeedBits'
                      /\ <<n, "transmit">> \in DOMAIN networkSpeedBits'
                      /\ SetTo(networkErrors, n, c.rxErrors, c.txErrors)
                      /\ SetTo(networkDrops, n, c.rxDrops, c.txDrops)
                      /\ SetTo(networkPackets, n, c.rxPackets, c.txPackets)
                      /\ OthersKept(networkErrors, n)
                      /\ OthersKept(networkDrops, n)
                      /\ OthersKept(networkPackets, n)
                 ELSE UNCHANGED <<networkSpeedBits, networkErrors, networkDrops,
                                  networkPackets>>]_vars
    /\ [][~SampledStep =>
             UNCHANGED <<networkSpeedBits, networkErrors, networkDrops,
                         networkPackets>>]_vars

\* An interface was sampled with a positive elapsed time; its counters have
\* grown since the stored sample and differ between the directions, and the
\* gauges hold the counters, not their growth.
CountersPublished ==
    /\ loc.kind = "sampled"
    /\ loc.exists
    /\ loc.now > loc.prev.time
    /\ loc.counters.rxErrors # loc.counters.txErrors
    /\ loc.counters.rxPackets # loc.prev.rxPackets
    /\ networkErrors[<<loc.ifaceName, "receive">>] = loc.counters.rxErrors
    /\ networkErrors[<<loc.ifaceName, "transmit">>] = loc.counters.txErrors
    /\ networkDrops[<<loc.ifaceName, "receive">>] = loc.counters.rxDrops
    /\ networkPackets[<<loc.ifaceName, "transmit">>] = loc.counters.txPackets

---------------------------------------------------------------------------
\* The step passes over a line: too few fields, a failed lookup, or an
\* interface that is down or a loopback.
SkipStep == loc' # loc /\ loc'.kind \in {"short", "skipped"}

\* C17: a line that is passed over sets no gauge and leaves the Store, the
\* clock and the lock as they were, so the lines after it are processed as
\* if it had not been there; the scan goes on: each interface not yet read
\* can still be read, and cleanup can still run.
SkipNeverAbortsCycle ==
    /\ [][SkipStep =>
             /\ gauges' = gauges
             /\ stats' = stats
             /\ clock' = clock
             /\ lock' = lock
             /\ pc' = "scan"]_vars
    /\ [](pc = "scan" /\ loc.kind \in {"short", "skipped"} =>
             /\ ENABLED CleanupStale
             /\ currentInterfaces # Ifaces => ENABLED ScanLine)

\* A line was passed over in this scan (its interface has never been
\* sampled), and a line read after it has had its rates published.
SampledAfterSkip ==
    /\ pc = "scan"
    /\ loc.kind = "sampled"
    /\ loc.exists
    /\ loc.now > loc.prev.time
    /\ <<loc.ifaceName, "receive">> \in DOMAIN networkSpeedBits
    /\ \E k \in currentInterfaces : k \notin GaugeNames(networkInterfaceInfo)

---------------------------------------------------------------------------
\* A request to /metrics has come and is not answered yet.
InFlight == remoteAddr # NoRequest /\ status = NoStatus

\* What the sampling loop owns.
sampler == <<pc, stats, lock, currentInterfaces, loc, cleanupNow, gauges>>

---------------------------------------------------------------------------
\* The entry a put of the line just sampled writes.
LastPut ==
    LET c == loc'.counters
    IN  [rxBytes |-> c.rxBytes, txBytes |-> c.txBytes,
         rxPackets |-> c.rxPackets, txPackets |-> c.txPackets,
         rxErrors |-> c.rxErrors, txErrors |-> c.txErrors,
         rxDrops |-> c.rxDrops, txDrops |-> c.txDrops,
         time |-> loc'.now, lastSeen |-> loc'.now]

\* C19: when cleanup returns, the Store holds at most maxInterfaces entries
\* and none with a lastSeen older than the staleness window at the time
\* cleanup read the clock; every entry of the Store is what the last put
\* for its interface wrote: an entry is written by the step that samples
\* its interface, with the counters and the time of that step, and no
\* other step changes it.
EndOfCycleStore ==
    /\ [][CapacityStep =>
             /\ Cardinality(DOMAIN stats') <= maxInterfaces
             /\ \A k \in DOMAIN stats' : ~IsStale(cleanupNow, stats'[k].lastSeen)]_vars
    /\ [][\A k \in DOMAIN stats' :
             \/ k \in DOMAIN stats /\ stats'[k] = stats[k]
             \/ /\ SampledStep
                /\ loc'.ifaceName = k
                /\ loc'.now = clock
                /\ stats'[k] = LastPut]_vars
    /\ [](pc = "sleep" => Cardinality(DOMAIN stats) <= maxInterfaces)

\* Cleanup has returned at the last tick; the three interfaces have all
\* been sampled, one entry is left, and it is within the staleness window.
StoreAfterLastCleanup ==
    /\ pc = "sleep"
    /\ clock = MaxClock
    /\ GaugeNames(networkInterfaceInfo) = Ifaces
    /\ Cardinality(DOMAIN stats) = maxInterfaces
    /\ \A k \in DOMAIN stats : ~IsStale(clock, stats[k].lastSeen)

---------------------------------------------------------------------------
\* Every key of gauge family g is still there after the step, with the
\* value it had unless the step samples the interface of the key.
KeysKept(g) ==
    \/ g' = g
    \/ \A k \in DOMAIN g :
          /\ k \in DOMAIN g'
          /\ g'[k] = g[k] \/ (SampledStep /\ loc'.ifaceName = k[1])

\* C20: no gauge key is ever removed: a key that has been set stays in its
\* family, with the value last set, through every later step, cleanup and
\* scans without its interface included; the info gauge of every
\* description an interface has had stays at 1.
GaugeKeysNeverRemoved ==
    /\ [][/\ KeysKept(networkSpeedBits)
          /\ KeysKept(networkErrors)
          /\ KeysKept(networkDrops)
          /\ KeysKept(networkPackets)
          /\ KeysKept(networkInterfaceInfo)]_vars
    /\ [](\A k \in DOMAIN networkInterfaceInfo : networkInterfaceInfo[k] = 1)

\* The entry of eth0 has been evicted from the Store; its rate gauges are
\* still set, and its info gauge is at 1 under both descriptions it had.
GaugesOutliveEntry ==
    /\ pc = "sleep"
    /\ "eth0" \notin DOMAIN stats
    /\ <<"eth0", "receive">> \in DOMAIN networkSpeedBits
    /\ <<"eth0", "transmit">> \in DOMAIN networkPackets
    /\ Cardinality({k \in DOMAIN networkInterfaceInfo : k[1] = "eth0"}) = 2
    /\ \A k \in DOMAIN networkInterfaceInfo : networkInterfaceInfo[k] = 1

====
